---------------------------- MODULE Spec2Model ----------------------------
(***************************************************************************)
(* A model of src/bot.py (GeminiTelegramBot): the per-user chat history,   *)
(* the handlers as coroutines that are suspended at every await, and the   *)
(* splitting of a long reply in send_long_message.                         *)
(*                                                                         *)
(* Three specifications share the variables:                               *)
(*   Spec       handlers of several updates interleave at their awaits;    *)
(*   SeqSpec    a text or a reset is taken only when no handler is in      *)
(*              flight;                                                    *)
(*   ChunkSpec  send_long_message alone, on every text up to MaxTextLen.   *)
(***************************************************************************)
EXTENDS Integers, Sequences, FiniteSets, TLC

(***************************************************************************)
(* Bounds of the model.                                                    *)
(***************************************************************************)
\* text updates received in one run, all users together
MaxEvents == 11
\* updates of any kind received in one run of Spec, where handlers
\* interleave
MaxInterleaved == 2
\* updates put on the queue in one run of QueueSpec
MaxQueued == 3
\* injected faults (backend errors and transport errors) in one run
MaxFailures == 1
\* updates other than texts (resets, photos, /start, /help, button presses)
\* in one run
MaxResets == 1
\* segments a reply is split into, as far as the handlers are concerned
MaxParts == 2
\* length of the texts given to send_long_message
MaxTextLen == 6
\* values of max_length tried (the program's is 4096)
MaxMaxLength == 3

\* user ids; 0 stands for "no user" in an idle handler
Users == {1, 2}
\* coroutines that can be in flight at once
Slots == {1, 2}

\* line 152: the cap on the length of a history
HistoryCap == 20

VARIABLES
    chat_history,   \* self.chat_history: user id -> list of turns
    keys,           \* the keys of self.chat_history
    handlers,       \* slot -> the coroutine running there
    sent_texts,     \* user id -> number of text updates received from the user
    failures,       \* faults injected so far
    resets,         \* resets received so far
    stateless,      \* photos, /start, /help, help and settings presses so far
    reset_at,       \* user id -> texts received before the user's latest reset
    arrived,        \* the updates put on the application's queue, in order
    text,           \* send_long_message: the local variable text
    parts,          \* send_long_message: the local variable parts
    max_length,     \* send_long_message: the local variable max_length
    outbox,         \* send_long_message: the texts given to reply_text, in order
    cpc,            \* send_long_message: where the coroutine is
    orig,           \* the text send_long_message was called with
    prev,           \* the value of text before the latest cut
    stripped        \* the whitespace lstrip() removed after each cut, in order

convVars == <<chat_history, keys, handlers, sent_texts, failures, resets,
              stateless, reset_at, arrived>>
chunkVars == <<text, parts, max_length, outbox, cpc, orig, prev, stripped>>
vars == <<chat_history, keys, handlers, sent_texts, failures, resets,
          stateless, reset_at, arrived,
          text, parts, max_length, outbox, cpc, orig, prev, stripped>>

(***************************************************************************)
(* Sequences.                                                              *)
(***************************************************************************)
Min(a, b) == IF a <= b THEN a ELSE b

\* s[-n:]
LastN(s, n) == IF Len(s) <= n THEN s ELSE SubSeq(s, Len(s) - n + 1, Len(s))

\* s[:-1]
ButLast(s) == IF s = <<>> THEN <<>> ELSE SubSeq(s, 1, Len(s) - 1)

(***************************************************************************)
(* The conversation store.                                                 *)
(***************************************************************************)
\* lines 131-134 and 146-149: a turn; a text is told apart by the number of
\* the update that carried it, a reply by the number of the text it answers
Turn(role, n) == [role |-> role, parts |-> n]

\* lines 127-134: the history with the user's turn appended
\* (AppendUserDropped: the fault of not appending it)
AppendUserDropped(hist, n) == hist
AppendUser(hist, n) == Append(hist, Turn("user", n))

\* line 137: the history given to start_chat
\* (PriorNoSlice: the fault of passing the pending user turn too)
PriorNoSlice(hist) == hist
Prior(hist) == ButLast(hist)

\* lines 146-149: the history with the model's turn appended
AppendModel(hist, n) == Append(hist, Turn("model", n))

\* lines 152-153: the history cut to its last 20 turns
\* (TrimNever: the fault of not cutting it)
TrimNever(hist) == hist
Trim(hist) == IF Len(hist) > HistoryCap THEN LastN(hist, HistoryCap) ELSE hist

\* lines 107 and 245: the store after a reset of user u
\* (ResetKeepsHistory: the fault of leaving the list as it is)
ResetKeepsHistory(store, u) == store
\* (ResetEveryHistory: the fault of emptying the whole store)
ResetEveryHistory(store, u) == [v \in DOMAIN store |-> <<>>]
ResetHistory(store, u) == [store EXCEPT ![u] = <<>>]

(***************************************************************************)
(* Handlers.  pc names the await the coroutine is suspended at; chat is the *)
(* history the chat object was started with; before records the user's     *)
(* history as it was when the update's handler first read or wrote it;     *)
(* total is the number of segments of the reply and sent the number of     *)
(* them handed to reply_text; typing, calls and errors count the typing    *)
(* indicators, the backend calls and the error replies of the update.      *)
(***************************************************************************)
Idle == [pc |-> "idle", kind |-> "none", user |-> 0, text |-> 0, chat |-> <<>>,
         before |-> <<>>, total |-> 0, sent |-> 0, typing |-> 0, calls |-> 0,
         errors |-> 0]

\* lines 120-123 and 167-170: send_chat_action(action='typing') is called
\* (EmitTypingTwice: the fault of sending the indicator again)
EmitTypingTwice(r) == [r EXCEPT !.typing = @ + 2]
EmitTyping(r) == [r EXCEPT !.typing = @ + 1]

\* lines 140-143 and 189-192: the backend call is handed to the executor
\* (InvokeWithRetry: the fault of calling the backend a second time)
InvokeWithRetry(r) == [r EXCEPT !.pc = "calling", !.calls = @ + 2]
Invoke(r) == [r EXCEPT !.pc = "calling", !.calls = @ + 1]

\* lines 158-163 and 199-204: the except branch calls reply_text with the
\* error text
ErrorReply(r) == [r EXCEPT !.pc = "error", !.errors = @ + 1, !.chat = <<>>]

\* lines 165-204: what handling a photo does to the store
\* (PhotoRecorded: the fault of threading the analysis into the history)
PhotoRecorded(store, u) == [store EXCEPT ![u] = Append(@, Turn("model", 0))]
PhotoStore(store, u) == store

AllIdle == \A h \in Slots : handlers[h].pc = "idle"

\* an update is given to the first free slot
FreeSlot(h) ==
    /\ handlers[h].pc = "idle"
    /\ \A g \in Slots : g < h => handlers[g].pc # "idle"

\* text updates received so far
RECURSIVE SumOver(_, _)
SumOver(f, S) ==
    IF S = {} THEN 0
    ELSE LET x == CHOOSE y \in S : TRUE IN f[x] + SumOver(f, S \ {x})

Received == SumOver(sent_texts, Users)

ConvInit ==
    /\ chat_history = [u \in Users |-> <<>>]
    /\ keys = {}
    /\ handlers = [h \in Slots |-> Idle]
    /\ sent_texts = [u \in Users |-> 0]
    /\ failures = 0
    /\ resets = 0
    /\ stateless = 0
    /\ reset_at = [u \in Users |-> 0]
    /\ arrived = <<>>

ChunkIdle ==
    /\ text = <<>>
    /\ parts = <<>>
    /\ max_length = 1
    /\ outbox = <<>>
    /\ cpc = "idle"
    /\ orig = <<>>
    /\ prev = <<>>
    /\ stripped = <<>>

Init == ConvInit /\ ChunkIdle

\* lines 116-123: a text update arrives; the coroutine awaits send_chat_action
ReceiveText(h, u) ==
    /\ FreeSlot(h)
    /\ Received < MaxEvents
    /\ sent_texts' = [sent_texts EXCEPT ![u] = @ + 1]
    /\ handlers' = [handlers EXCEPT ![h] =
           EmitTyping([Idle EXCEPT !.pc = "typing", !.kind = "text", !.user = u,
                                   !.text = sent_texts[u] + 1,
                                   !.before = chat_history[u]])]
    /\ UNCHANGED <<chat_history, keys, failures, resets, stateless, reset_at,
                   arrived, chunkVars>>

\* line 120 (or 167) raises (it is outside the try): the handler ends
TypingFails(h) ==
    /\ handlers[h].pc = "typing"
    /\ failures < MaxFailures
    /\ failures' = failures + 1
    /\ handlers' = [handlers EXCEPT ![h] = Idle]
    /\ UNCHANGED <<chat_history, keys, sent_texts, resets, stateless, reset_at,
                   arrived, chunkVars>>

\* lines 127-143: the key is created, the user's turn appended, the chat
\* started with history[:-1], and the call handed to the executor
StartChat(h) ==
    /\ handlers[h].pc = "typing"
    /\ handlers[h].kind = "text"
    /\ LET u == handlers[h].user
           hist == AppendUser(chat_history[u], handlers[h].text)
       IN /\ keys' = keys \cup {u}
          /\ chat_history' = [chat_history EXCEPT ![u] = hist]
          /\ handlers' = [handlers EXCEPT ![h] =
                 Invoke([handlers[h] EXCEPT !.chat = Prior(hist)])]
    /\ UNCHANGED <<sent_texts, failures, resets, stateless, reset_at,
                   arrived, chunkVars>>

\* lines 146-156: the call returned; the model's turn is appended, the
\* history trimmed, and send_long_message awaits its first reply_text
BackendReturns(h) ==
    /\ handlers[h].pc = "calling"
    /\ handlers[h].kind = "text"
    /\ \E n \in 1..MaxParts :
         LET u == handlers[h].user
         IN /\ chat_history' = [chat_history EXCEPT ![u] =
                    Trim(AppendModel(chat_history[u], handlers[h].text))]
            /\ handlers' = [handlers EXCEPT ![h].pc = "sending",
                                            ![h].chat = <<>>,
                                            ![h].total = n]
    /\ UNCHANGED <<keys, sent_texts, failures, resets, stateless, reset_at,
                   arrived, chunkVars>>

\* lines 158-163 and 199-204: the call raised; the handler awaits the
\* error reply
BackendFails(h) ==
    /\ handlers[h].pc = "calling"
    /\ failures < MaxFailures
    /\ failures' = failures + 1
    /\ handlers' = [handlers EXCEPT ![h] = ErrorReply(handlers[h])]
    /\ UNCHANGED <<chat_history, keys, sent_texts, resets, stateless, reset_at,
                   arrived, chunkVars>>

\* lines 211, 234, 236: one reply_text of send_long_message completes
SendPart(h) ==
    /\ handlers[h].pc = "sending"
    /\ handlers' = [handlers EXCEPT ![h] =
           IF handlers[h].sent + 1 = handlers[h].total
           THEN Idle
           ELSE [handlers[h] EXCEPT !.sent = @ + 1]]
    /\ UNCHANGED <<chat_history, keys, sent_texts, failures, resets, stateless, reset_at,
                   arrived, chunkVars>>

\* lines 156-163 and 194-204: a reply_text of send_long_message raises
\* inside the try
SendPartFails(h) ==
    /\ handlers[h].pc = "sending"
    /\ failures < MaxFailures
    /\ failures' = failures + 1
    /\ handlers' = [handlers EXCEPT ![h] = ErrorReply(handlers[h])]
    /\ UNCHANGED <<chat_history, keys, sent_texts, resets, stateless, reset_at,
                   arrived, chunkVars>>

\* lines 160-163 and 201-204: the error reply completes (or raises): the
\* handler ends
ErrorSent(h) ==
    /\ handlers[h].pc = "error"
    /\ handlers' = [handlers EXCEPT ![h] = Idle]
    /\ UNCHANGED <<chat_history, keys, sent_texts, failures, resets, stateless, reset_at,
                   arrived, chunkVars>>

\* lines 104-112: /new empties the history, then awaits reply_text
NewChatCommand(h, u) ==
    /\ FreeSlot(h)
    /\ resets + stateless < MaxResets
    /\ resets' = resets + 1
    /\ keys' = keys \cup {u}
    /\ chat_history' = ResetHistory(chat_history, u)
    /\ reset_at' = [reset_at EXCEPT ![u] = sent_texts[u]]
    /\ handlers' = [handlers EXCEPT ![h] =
           [Idle EXCEPT !.pc = "replying", !.kind = "new", !.user = u,
                        !.before = chat_history[u]]]
    /\ UNCHANGED <<sent_texts, failures, stateless, arrived, chunkVars>>

\* lines 238-241: the new_chat button is pressed; the coroutine awaits
\* query.answer()
ButtonNewChat(h, u) ==
    /\ FreeSlot(h)
    /\ resets + stateless < MaxResets
    /\ resets' = resets + 1
    /\ handlers' = [handlers EXCEPT ![h] =
           [Idle EXCEPT !.pc = "answering", !.kind = "new_chat", !.user = u]]
    /\ UNCHANGED <<chat_history, keys, sent_texts, failures, stateless, reset_at,
                   arrived, chunkVars>>

\* lines 243-246: the history is emptied, then edit_message_text awaited
ButtonReset(h) ==
    /\ handlers[h].pc = "answering"
    /\ handlers[h].kind = "new_chat"
    /\ LET u == handlers[h].user
       IN /\ keys' = keys \cup {u}
          /\ reset_at' = [reset_at EXCEPT ![u] = sent_texts[u]]
          /\ chat_history' = ResetHistory(chat_history, u)
          /\ handlers' = [handlers EXCEPT ![h].pc = "editing",
                                          ![h].before = chat_history[u]]
    /\ UNCHANGED <<sent_texts, failures, resets, stateless, arrived, chunkVars>>

\* lines 109-112 and 246: the confirmation completes: the handler ends
ResetConfirmed(h) ==
    /\ handlers[h].pc \in {"replying", "editing"}
    /\ handlers' = [handlers EXCEPT ![h] = Idle]
    /\ UNCHANGED <<chat_history, keys, sent_texts, failures, resets, stateless, reset_at,
                   arrived, chunkVars>>

\* line 241: query.answer() raises: the handler ends, nothing is done
AnswerFails(h) ==
    /\ handlers[h].pc = "answering"
    /\ failures < MaxFailures
    /\ failures' = failures + 1
    /\ handlers' = [handlers EXCEPT ![h] = Idle]
    /\ UNCHANGED <<chat_history, keys, sent_texts, resets, stateless, reset_at,
                   arrived, chunkVars>>

\* lines 165-170: a photo update arrives; the coroutine awaits
\* send_chat_action
ReceivePhoto(h, u) ==
    /\ FreeSlot(h)
    /\ resets + stateless < MaxResets
    /\ stateless' = stateless + 1
    /\ handlers' = [handlers EXCEPT ![h] =
           EmitTyping([Idle EXCEPT !.pc = "typing", !.kind = "photo",
                                   !.user = u])]
    /\ UNCHANGED <<chat_history, keys, sent_texts, failures, resets, reset_at,
                   arrived, chunkVars>>

\* lines 172-175: the largest size is picked; the coroutine awaits get_file
GetFile(h) ==
    /\ handlers[h].pc = "typing"
    /\ handlers[h].kind = "photo"
    /\ handlers' = [handlers EXCEPT ![h].pc = "fetching"]
    /\ UNCHANGED <<chat_history, keys, sent_texts, failures, resets, stateless,
                   reset_at, arrived, chunkVars>>

\* lines 178-180: the temporary file is made; the coroutine awaits
\* download_to_drive
Download(h) ==
    /\ handlers[h].pc = "fetching"
    /\ handlers' = [handlers EXCEPT ![h].pc = "downloading"]
    /\ UNCHANGED <<chat_history, keys, sent_texts, failures, resets, stateless,
                   reset_at, arrived, chunkVars>>

\* lines 175-184, 199-204: get_file, download_to_drive or Image.open raises;
\* the handler awaits the error reply
MediaFails(h) ==
    /\ handlers[h].pc \in {"fetching", "downloading"}
    /\ failures < MaxFailures
    /\ failures' = failures + 1
    /\ handlers' = [handlers EXCEPT ![h] = ErrorReply(handlers[h])]
    /\ UNCHANGED <<chat_history, keys, sent_texts, resets, stateless, reset_at,
                   arrived, chunkVars>>

\* lines 183-192: the image is opened, the prompt chosen, and the vision
\* call handed to the executor
Describe(h) ==
    /\ handlers[h].pc = "downloading"
    /\ handlers' = [handlers EXCEPT ![h] = Invoke(handlers[h])]
    /\ chat_history' = PhotoStore(chat_history, handlers[h].user)
    /\ UNCHANGED <<keys, sent_texts, failures, resets, stateless, reset_at,
                   arrived, chunkVars>>

\* lines 189-194: the vision call returned; send_long_message awaits its
\* first reply_text
VisionReturns(h) ==
    /\ handlers[h].pc = "calling"
    /\ handlers[h].kind = "photo"
    /\ \E n \in 1..MaxParts :
         handlers' = [handlers EXCEPT ![h].pc = "sending", ![h].total = n]
    /\ chat_history' = PhotoStore(chat_history, handlers[h].user)
    /\ UNCHANGED <<keys, sent_texts, failures, resets, stateless, reset_at,
                   arrived, chunkVars>>

\* lines 53-78 and 80-102: /start or /help arrives; the coroutine awaits
\* reply_text with the fixed text
Command(h, u, k) ==
    /\ FreeSlot(h)
    /\ resets + stateless < MaxResets
    /\ stateless' = stateless + 1
    /\ handlers' = [handlers EXCEPT ![h] =
           [Idle EXCEPT !.pc = "informing", !.kind = k, !.user = u]]
    /\ UNCHANGED <<chat_history, keys, sent_texts, failures, resets, reset_at,
                   arrived, chunkVars>>

StartCommand(h, u) == Command(h, u, "start")

HelpCommand(h, u) == Command(h, u, "help")

\* lines 238-241: the help or the settings button is pressed; the coroutine
\* awaits query.answer()
ButtonInfo(h, u) ==
    /\ FreeSlot(h)
    /\ resets + stateless < MaxResets
    /\ stateless' = stateless + 1
    /\ \E k \in {"help_button", "settings"} :
         handlers' = [handlers EXCEPT ![h] =
             [Idle EXCEPT !.pc = "answering", !.kind = k, !.user = u]]
    /\ UNCHANGED <<chat_history, keys, sent_texts, failures, resets, reset_at,
                   arrived, chunkVars>>

\* lines 248-263: the fixed text is built; the coroutine awaits
\* edit_message_text
EditInfo(h) ==
    /\ handlers[h].pc = "answering"
    /\ handlers[h].kind \in {"help_button", "settings"}
    /\ handlers' = [handlers EXCEPT ![h].pc = "informing"]
    /\ UNCHANGED <<chat_history, keys, sent_texts, failures, resets, stateless,
                   reset_at, arrived, chunkVars>>

\* lines 78, 102, 260, 263: the fixed text is sent (or the send raises): the
\* handler ends
InfoSent(h) ==
    /\ handlers[h].pc = "informing"
    /\ handlers' = [handlers EXCEPT ![h] = Idle]
    /\ UNCHANGED <<chat_history, keys, sent_texts, failures, resets, stateless,
                   reset_at, arrived, chunkVars>>

\* a suspended coroutine of the text handler or of a reset is resumed
StoreResume(h) ==
    \/ TypingFails(h)
    \/ StartChat(h)
    \/ BackendReturns(h)
    \/ BackendFails(h)
    \/ SendPart(h)
    \/ SendPartFails(h)
    \/ ErrorSent(h)
    \/ AnswerFails(h)
    \/ ButtonReset(h)
    \/ ResetConfirmed(h)

\* a suspended coroutine is resumed
Resume(h) ==
    \/ StoreResume(h)
    \/ GetFile(h)
    \/ Download(h)
    \/ MediaFails(h)
    \/ Describe(h)
    \/ VisionReturns(h)
    \/ EditInfo(h)
    \/ InfoSent(h)

\* the run takes another update while handlers are in flight
Interleaved == Received + resets + stateless < MaxInterleaved

\* lines 271-280: an update is routed to its handler, which runs beside the
\* handlers that are suspended
Next ==
    \E h \in Slots :
        \/ \E u \in Users : Interleaved /\ ReceiveText(h, u)
        \/ \E u \in Users : Interleaved /\ NewChatCommand(h, u)
        \/ \E u \in Users : Interleaved /\ ButtonNewChat(h, u)
        \/ \E u \in Users : Interleaved /\ ReceivePhoto(h, u)
        \/ \E u \in Users : Interleaved /\ StartCommand(h, u)
        \/ \E u \in Users : Interleaved /\ HelpCommand(h, u)
        \/ \E u \in Users : Interleaved /\ ButtonInfo(h, u)
        \/ Resume(h)

Spec == Init /\ [][Next]_vars

\* lines 268-280: the application is built without concurrent updates, so
\* an update is taken up only when the handler of the previous one has ended
\* (the updates that reach the store: texts and resets)
SeqNext ==
    \E h \in Slots :
        \/ \E u \in Users : AllIdle /\ ReceiveText(h, u)
        \/ \E u \in Users : AllIdle /\ NewChatCommand(h, u)
        \/ \E u \in Users : AllIdle /\ ButtonNewChat(h, u)
        \/ StoreResume(h)

SeqSpec == Init /\ [][SeqNext]_vars

(***************************************************************************)
(* The same one-at-a-time processing with the application's update queue   *)
(* made explicit: an update arrives at any time, also while a handler is   *)
(* suspended, and waits in the queue for its turn.                         *)
(***************************************************************************)

\* updates taken from the queue so far
Dispatched == Received + resets + stateless

Pending == Len(arrived) > Dispatched

NextUpdate == arrived[Dispatched + 1]

\* resets on the queue
QueuedResets ==
    Cardinality({i \in 1..Len(arrived) : arrived[i].kind \in {"new", "new_chat"}})

\* line 280: run_polling puts an update on the queue; busy records whether a
\* handler of the same user was suspended at that moment
Arrive(u, k) ==
    /\ Len(arrived) < MaxQueued
    /\ k \in {"new", "new_chat"} => QueuedResets < MaxResets
    /\ arrived' = Append(arrived,
           [kind |-> k, user |-> u,
            busy |-> \E h \in Slots : handlers[h].pc # "idle"
                                      /\ handlers[h].user = u])
    /\ UNCHANGED <<chat_history, keys, handlers, sent_texts, failures, resets,
                   stateless, reset_at, chunkVars>>

\* line 268: the application is built with concurrent_updates left off and
\* lines 271-276 leave the handlers blocking: the next update is taken when
\* the handler of the previous one has returned
\* (ConcurrentUpdates: the application built to process updates concurrently)
ConcurrentUpdates == TRUE
OneAtATime == AllIdle

\* lines 271-276: the update at the head of the queue is of kind k and of
\* user u, and it is its turn
Taken(k, u) ==
    /\ OneAtATime
    /\ Pending
    /\ NextUpdate.kind = k
    /\ NextUpdate.user = u

QueueNext ==
    \/ \E u \in Users : \E k \in {"text", "new", "new_chat"} : Arrive(u, k)
    \/ \E h \in Slots :
        \/ \E u \in Users : Taken("text", u) /\ ReceiveText(h, u)
        \/ \E u \in Users : Taken("new", u) /\ NewChatCommand(h, u)
        \/ \E u \in Users : Taken("new_chat", u) /\ ButtonNewChat(h, u)
        \/ StoreResume(h)

QueueSpec == Init /\ [][QueueNext]_vars

(***************************************************************************)
(* send_long_message.  A text is a sequence of characters, each a string   *)
(* of its own; positions are counted from 0 as in the program, so the      *)
(* character at position c of t is t[c + 1].                               *)
(***************************************************************************)
\* one character of each kind the splitting tells apart: a letter, a break
\* character that is no whitespace, two that are, and whitespace that is no
\* break character
Alphabet == {"a", ".", " ", "\n", "\t"}

Texts == UNION {[1..n -> Alphabet] : n \in 0..MaxTextLen}

\* line 222: the characters a cut may be made at
IsBreak(c) == c \in {"\n", ".", "!", "?", " "}

\* line 229: the characters str.lstrip() removes
IsSpace(c) == c \in {" ", "\n", "\t"}

\* lines 221-223: the backward scan from cut_pos
RECURSIVE Scan(_, _)
Scan(t, c) == IF c > 0 /\ ~IsBreak(t[c + 1]) THEN Scan(t, c - 1) ELSE c

\* lines 221-226: the position of the cut
\* (CutAtScan: the fault of leaving out the fallback of lines 224-225)
CutAtScan(t, m) == Scan(t, m)
CutPos(t, m) == LET c == Scan(t, m) IN IF c = 0 THEN m ELSE c

\* line 228: text[:cut_pos]
\* (SegmentWithCut: the fault of taking the character at cut_pos too)
SegmentWithCut(t, c) == SubSeq(t, 1, c + 1)
Segment(t, c) == SubSeq(t, 1, c)

\* line 229: text[cut_pos:]
\* (RestAfterCut: the fault of skipping the character at cut_pos)
RestAfterCut(t, c) == SubSeq(t, c + 2, Len(t))
Rest(t, c) == SubSeq(t, c + 1, Len(t))

\* line 229: s.lstrip()
RECURSIVE LStrip(_)
LStrip(s) == IF s # <<>> /\ IsSpace(s[1]) THEN LStrip(Tail(s)) ELSE s

\* the whitespace s starts with
RECURSIVE LeadingSpace(_)
LeadingSpace(s) ==
    IF s # <<>> /\ IsSpace(s[1]) THEN <<s[1]>> \o LeadingSpace(Tail(s)) ELSE <<>>

\* line 236: str() of a number
Digit(d) == <<"0", "1", "2", "3", "4", "5", "6", "7", "8", "9">>[d + 1]

RECURSIVE Digits(_)
Digits(n) == IF n < 10 THEN <<Digit(n)>> ELSE Digits(n \div 10) \o <<Digit(n % 10)>>

\* line 236: the prefix of a continuation; the eleven Cyrillic letters of the
\* program's word are written with one Latin token each
Marker(i, total) ==
    <<"*", ".", ".", ".", "p", "r", "o", "d", "o", "l", "zh", "e", "n", "i", "e",
      " ", "(">> \o Digits(i) \o <<"/">> \o Digits(total)
      \o <<")", "*", "\n", "\n">>

\* lines 233-236: the text of the message for parts[i], i counted from 0
Message(i, ps) ==
    IF i = 0 THEN ps[1] ELSE Marker(i + 1, Len(ps)) \o ps[i + 1]

\* send_long_message is called with a text
ChunkInit ==
    /\ ConvInit
    /\ text \in Texts
    /\ max_length \in 1..MaxMaxLength
    /\ orig = text
    /\ parts = <<>>
    /\ outbox = <<>>
    /\ cpc = "called"
    /\ prev = <<>>
    /\ stripped = <<>>

\* lines 210-211: the text fits one message
SendWhole ==
    /\ cpc = "called"
    /\ Len(text) <= max_length
    /\ outbox' = <<text>>
    /\ cpc' = "done"
    /\ UNCHANGED <<text, parts, max_length, orig, prev, stripped, convVars>>

\* lines 212-214: the text is to be split
EnterLoop ==
    /\ cpc = "called"
    /\ Len(text) > max_length
    /\ parts' = <<>>
    /\ cpc' = "split"
    /\ UNCHANGED <<text, max_length, outbox, orig, prev, stripped, convVars>>

\* lines 215-229: one pass of the loop that cuts
SplitCut ==
    /\ cpc = "split"
    /\ Len(text) > max_length
    /\ LET c == CutPos(text, max_length)
       IN /\ parts' = Append(parts, Segment(text, c))
          /\ text' = LStrip(Rest(text, c))
          /\ stripped' = Append(stripped, LeadingSpace(SubSeq(text, c + 1, Len(text))))
    /\ prev' = text
    /\ UNCHANGED <<max_length, outbox, cpc, orig, convVars>>

\* lines 215-218: the remainder fits and is the last part
SplitLast ==
    /\ cpc = "split"
    /\ text # <<>>
    /\ Len(text) <= max_length
    /\ parts' = Append(parts, text)
    /\ cpc' = "send"
    /\ UNCHANGED <<text, max_length, outbox, orig, prev, stripped, convVars>>

\* line 215: nothing is left
SplitEnd ==
    /\ cpc = "split"
    /\ text = <<>>
    /\ cpc' = "send"
    /\ UNCHANGED <<text, parts, max_length, outbox, orig, prev, stripped, convVars>>

\* lines 232-236: the next part is sent
SendNext ==
    /\ cpc = "send"
    /\ Len(outbox) < Len(parts)
    /\ outbox' = Append(outbox, Message(Len(outbox), parts))
    /\ cpc' = IF Len(outbox) + 1 = Len(parts) THEN "done" ELSE "send"
    /\ UNCHANGED <<text, parts, max_length, orig, prev, stripped, convVars>>

ChunkNext ==
    \/ SendWhole
    \/ EnterLoop
    \/ SplitCut
    \/ SplitLast
    \/ SplitEnd
    \/ SendNext

ChunkSpec == ChunkInit /\ [][ChunkNext]_vars

\* one character of each kind, without the second whitespace break
\* character: the loop treats "\n" and " " alike
Kinds == Alphabet \ {"\n"}

\* send_long_message is called with a text over these characters
ChunkLiveInit ==
    /\ ChunkInit
    /\ \A k \in 1..Len(text) : text[k] \in Kinds

\* send_long_message is a coroutine that the event loop resumes after each
\* await; between two awaits its code runs on
ChunkLiveSpec == ChunkLiveInit /\ [][ChunkNext]_vars /\ WF_vars(ChunkNext)

(***************************************************************************)
(* Properties of the conversation store.                                   *)
(***************************************************************************)
Turns(hist) == {hist[i] : i \in 1..Len(hist)}

InFlight(u) == \E h \in Slots : handlers[h].pc # "idle" /\ handlers[h].user = u

\* the handler's call to the backend raised: it is suspended at the error
\* reply and no reply segment was prepared
BackendFailed(h) ==
    /\ handlers[h].pc = "error"
    /\ handlers[h].kind = "text"
    /\ handlers[h].total = 0

\* the turns of n exchanges that all succeeded: user 1, model 1, ..., model n
Exchanges(n) ==
    [i \in 1..(2 * n) |->
        Turn(IF i % 2 = 1 THEN "user" ELSE "model", (i + 1) \div 2)]

\* C1: the length of a user's History never exceeds 20. Stated for the
\* states in which no handler is in flight, where no trim is still to come.
C1_LengthWithinCap ==
    AllIdle => \A u \in Users : Len(chat_history[u]) <= HistoryCap

\* C2: with updates handled one at a time, a History is empty or starts
\* with a user turn, and every model turn directly follows a user turn.
C2_StartsWithUserNoAdjacentModels ==
    \A u \in Users :
        LET hist == chat_history[u]
        IN /\ hist = <<>> \/ hist[1].role = "user"
           /\ \A i \in 1..Len(hist) :
                hist[i].role = "model" => i > 1 /\ hist[i - 1].role = "user"

\* C3 as claimed: after a text update whose backend call failed, the
\* History is as long as it was before the update was received.
C3_FailureKeepsLength ==
    \A h \in Slots :
        BackendFailed(h) =>
            Len(chat_history[handlers[h].user]) = Len(handlers[h].before)

\* C3 as amended: after a text update whose backend call failed, the
\* History is one turn longer than before the update was received: the
\* user's turn stays and no model turn is appended.
C3_FailureKeepsUserTurn ==
    \A h \in Slots :
        BackendFailed(h) =>
            /\ Len(chat_history[handlers[h].user]) = Len(handlers[h].before) + 1
            /\ Turn("model", handlers[h].text)
                   \notin Turns(chat_history[handlers[h].user])

\* a call failed for a user whose History already held an exchange
C3_Witness ==
    \E h \in Slots : BackendFailed(h) /\ Len(handlers[h].before) >= 2

\* C4: the user's turn is appended first, the backend is called with the
\* turns that were there before that append plus the new text, and the
\* model's turn is appended once the call has returned; a first message
\* gives [user] during the call and [user, model] after it.
C4_AppendCallAppend ==
    \A h \in Slots :
        LET r == handlers[h]
            hist == chat_history[r.user]
        IN /\ r.pc = "calling" =>
                /\ r.chat = r.before
                /\ hist = Append(r.before, Turn("user", r.text))
                /\ Turn("model", r.text) \notin Turns(hist)
                /\ r.before = <<>> => hist = <<Turn("user", r.text)>>
           /\ r.pc = "sending" =>
                /\ Len(hist) >= 2
                /\ hist[Len(hist) - 1] = Turn("user", r.text)
                /\ hist[Len(hist)] = Turn("model", r.text)
                /\ r.before = <<>> =>
                       hist = <<Turn("user", r.text), Turn("model", r.text)>>

\* a call is in flight for a user whose History already held an exchange
C4_Witness ==
    \E h \in Slots :
        /\ handlers[h].pc = "calling"
        /\ Len(handlers[h].before) >= 2
        /\ handlers[h].chat = handlers[h].before

ResetStep(h) ==
    /\ handlers[h].pc \notin {"replying", "editing"}
    /\ handlers'[h].pc \in {"replying", "editing"}

\* C6: right after a reset of a user, that user's History is empty whatever
\* it held, and /new and the new_chat button change the store alike: the
\* user's key holds the empty list, every other key is as before.
C6_ResetEmpties ==
    [][\A h \in Slots :
         ResetStep(h) =>
            /\ chat_history'[handlers'[h].user] = <<>>
            /\ chat_history' = [chat_history EXCEPT ![handlers'[h].user] = <<>>]
            /\ keys' = keys \cup {handlers'[h].user}]_vars

\* the new_chat button has emptied a History that held turns
C6_Witness ==
    \E h \in Slots :
        /\ handlers[h].pc = "editing"
        /\ handlers[h].before # <<>>
        /\ chat_history[handlers[h].user] = <<>>

(***************************************************************************)
(* Properties of the handlers.                                             *)
(***************************************************************************)

\* the handler in slot h has taken a step
Acted(h) == handlers'[h] # handlers[h]

\* the kind and the user of the update whose handler takes the step
StepKind(h) ==
    IF handlers[h].pc = "idle" THEN handlers'[h].kind ELSE handlers[h].kind

StepUser(h) ==
    IF handlers[h].pc = "idle" THEN handlers'[h].user ELSE handlers[h].user

\* C11: every step of the handling of a photo (the vision call returning or
\* failing), of /start, of /help and of a press of the help or the
\* settings button leaves every user's History and the set of keys as they
\* were, and /start and /help never call the backend.
C11_OtherUpdatesKeepHistories ==
    [][\A h \in Slots :
         (Acted(h) /\ StepKind(h) \in {"photo", "start", "help", "help_button",
                                       "settings"}) =>
            /\ chat_history' = chat_history
            /\ keys' = keys
            /\ StepKind(h) \in {"start", "help"} =>
                   /\ handlers'[h].calls = 0
                   /\ handlers'[h].pc # "calling"]_vars

\* the vision call has returned for a photo of a user whose History holds
\* turns
C11_Witness ==
    \E h \in Slots :
        /\ handlers[h].kind = "photo"
        /\ handlers[h].pc = "sending"
        /\ chat_history[handlers[h].user] # <<>>

\* C12: whatever the interleaving, a step of the handler of a user's update
\* (a text whose call returns or fails, a photo, a reset) leaves the
\* History and the key of every other user as they were.
C12_OnlyOwnKey ==
    [][\A h \in Slots :
         Acted(h) =>
            \A u \in Users \ {StepUser(h)} :
                /\ chat_history'[u] = chat_history[u]
                /\ (u \in keys') = (u \in keys)]_vars

\* the handlers of two users are in flight, one has appended its user's
\* turn and the other user's History holds turns
C12_Witness ==
    \E h, g \in Slots :
        /\ handlers[h].user # handlers[g].user
        /\ handlers[h].kind = "text"
        /\ handlers[h].pc = "calling"
        /\ handlers[g].pc # "idle"
        /\ chat_history[handlers[g].user] # <<>>

\* C13: while a backend call of one user is in flight (and nothing else)
\* and the update next in the queue is a text of another user, that update
\* can be taken up and given to its handler without waiting for the call
\* to return.
C13_OtherUserNotBlocked ==
    \A h \in Slots :
        (/\ handlers[h].pc = "calling"
         /\ \E g \in Slots : handlers[g].pc = "idle"
         /\ Pending
         /\ NextUpdate.user # handlers[h].user
         /\ NextUpdate.kind = "text") =>
            ENABLED (\E g \in Slots :
                         /\ QueueNext
                         /\ handlers[g].pc = "idle"
                         /\ handlers'[g].pc # "idle")

\* C14: while a text or a photo is handled, the typing indicator has been
\* sent exactly once, and so once before the backend is called; /start,
\* /help, the resets and the buttons send none.
C14_TypingOnceBeforeCall ==
    \A h \in Slots :
        LET r == handlers[h]
        IN /\ r.kind \in {"text", "photo"} => r.typing = 1
           /\ r.kind \notin {"text", "photo"} => r.typing = 0 /\ r.calls = 0
           /\ r.calls > 0 => r.typing = 1

\* the backend calls of a text and of a photo are in flight at once
C14_Witness ==
    \E h, g \in Slots :
        /\ handlers[h].kind = "text"
        /\ handlers[h].pc = "calling"
        /\ handlers[g].kind = "photo"
        /\ handlers[g].pc = "calling"

\* C15: when the backend call of a text fails, the backend has been called
\* once, one error reply and no segment of a reply has been sent, no model
\* turn has been appended, and the user's turn of that text is the last
\* entry of the History.
C15_FailedCall ==
    \A h \in Slots :
        BackendFailed(h) =>
            LET r == handlers[h]
                hist == chat_history[r.user]
            IN /\ r.calls = 1
               /\ r.errors = 1
               /\ r.sent = 0
               /\ Turn("model", r.text) \notin Turns(hist)
               /\ hist # <<>>
               /\ hist[Len(hist)] = Turn("user", r.text)

\* the call failed for the first text of a user while the other user's
\* History holds exchanges
C15_Witness ==
    \E h \in Slots :
        /\ BackendFailed(h)
        /\ handlers[h].before = <<>>
        /\ \E u \in Users : Len(chat_history[u]) >= 4

\* C16: when the trim after a model turn removes turns, it removes an even
\* number of them, the first one removed is a user turn, and the History
\* left starts with a user turn and has even length.
C16_TrimRemovesPairs ==
    [][\A h \in Slots :
         (handlers[h].pc = "calling" /\ handlers[h].kind = "text"
          /\ handlers'[h].pc = "sending") =>
            LET u == handlers[h].user
                full == AppendModel(chat_history[u], handlers[h].text)
                left == chat_history'[u]
            IN Len(left) < Len(full) =>
                 /\ (Len(full) - Len(left)) % 2 = 0
                 /\ full[1].role = "user"
                 /\ left[1].role = "user"
                 /\ Len(left) % 2 = 0]_vars

C19_ErrorOnlyBeforeModelTurn ==
    \A h \in Slots :
        (handlers[h].kind = "text" /\ handlers[h].pc = "error") =>
            /\ Turn("model", handlers[h].text)
                   \notin Turns(chat_history[handlers[h].user])
            /\ handlers[h].sent = 0
            /\ handlers[h].total = 0

(***************************************************************************)
(* Properties of send_long_message.                                        *)
(***************************************************************************)
Max(S) == CHOOSE x \in S : \A y \in S : y <= x

NoBreakIn(t) == \A k \in 1..Len(t) : ~IsBreak(t[k])

\* the segments with the whitespace stripped after each cut put back
RECURSIVE Rejoin(_, _)
Rejoin(ps, ws) ==
    IF ps = <<>> /\ ws = <<>> THEN <<>>
    ELSE (IF ps = <<>> THEN <<>> ELSE Head(ps))
         \o (IF ws = <<>> THEN <<>> ELSE Head(ws))
         \o Rejoin(IF ps = <<>> THEN <<>> ELSE Tail(ps),
                   IF ws = <<>> THEN <<>> ELSE Tail(ws))

\* C7: no segment is longer than max_length, whether the text was sent
\* whole, cut at a break character or cut hard.
C7_SegmentsFit ==
    /\ \A k \in 1..Len(parts) : Len(parts[k]) <= max_length
    /\ (cpc = "done" /\ parts = <<>>) => Len(outbox[1]) <= max_length

\* a text without any break character has been cut into several segments
C7_Witness ==
    /\ cpc = "send"
    /\ Len(parts) >= 3
    /\ NoBreakIn(orig)
    /\ \E k \in 1..Len(parts) : Len(parts[k]) = max_length

\* C8: the segments in order, with the whitespace stripped after each cut
\* put back between them, are the original text: while the loop runs
\* together with what is left to cut, and in full once it has ended.
C8_RoundTrip ==
    /\ cpc = "split" => Rejoin(parts, stripped) \o text = orig
    /\ (cpc \in {"send", "done"} /\ parts # <<>>) => Rejoin(parts, stripped) = orig
    /\ (cpc = "done" /\ parts = <<>>) => outbox = <<orig>>

\* a text without any break character has been cut hard, and whitespace
\* was stripped after a cut
C8_Witness ==
    /\ cpc = "done"
    /\ Len(parts) >= 2
    /\ NoBreakIn(orig)
    /\ \E k \in 1..Len(stripped) : stripped[k] # <<>>

\* C9: when the text left is longer than max_length, the cut is made at the
\* largest position i <= max_length that holds a break character, the
\* segment is text[0..i] with that character, and what is left is the rest
\* without its leading whitespace. Read right after a cut: prev is the text
\* that was cut, the last of parts the segment, text what is left.
C9_CutKeepsBreakCharacter ==
    (cpc = "split" /\ parts # <<>>) =>
        LET B == {i \in 0..max_length : IsBreak(prev[i + 1])}
        IN B # {} =>
             /\ parts[Len(parts)] = SubSeq(prev, 1, Max(B) + 1)
             /\ text = LStrip(SubSeq(prev, Max(B) + 2, Len(prev)))

\* C10: every message sent for a reply, the first segment and every
\* continuation with its marker, is at most max_length (the platform's
\* 4096) characters long.
C10_MessagesFit ==
    \A k \in 1..Len(outbox) : Len(outbox[k]) <= max_length

\* C17: when the text left is longer than max_length and none of the
\* positions max_length down to 1 holds a break character, the segment is
\* the first max_length characters and what is left is the rest without
\* its leading whitespace. Read right after a cut, as C9.
C17_HardCut ==
    (cpc = "split" /\ parts # <<>>) =>
        ((\A i \in 1..max_length : ~IsBreak(prev[i + 1])) =>
             /\ parts[Len(parts)] = SubSeq(prev, 1, max_length)
             /\ text = LStrip(SubSeq(prev, max_length + 1, Len(prev))))

\* a hard cut was made before whitespace, which was then stripped
C17_Witness ==
    /\ cpc = "split"
    /\ parts # <<>>
    /\ \A i \in 1..max_length : ~IsBreak(prev[i + 1])
    /\ Len(text) + max_length < Len(prev)
    /\ text # <<>>

\* C20: the loop that cuts ends for every text: every pass appends a
\* segment that is not empty and leaves a text shorter than before, there
\* are never more segments than the text has characters, and the loop is
\* left in the end.
C20_LoopTerminates ==
    /\ [](/\ \A k \in 1..Len(parts) : parts[k] # <<>>
          /\ (cpc = "split" /\ parts # <<>>) => Len(text) < Len(prev)
          /\ Len(parts) <= Len(orig))
    /\ <>(cpc \in {"send", "done"})

\* the loop has ended after as many passes as the text has characters
C20_Witness ==
    /\ cpc = "send"
    /\ Len(parts) = Len(orig)
    /\ Len(parts) >= 4

=============================================================================
